---- MODULE Spec2Model ----
(***************************************************************************)
(* Model of bot.py: the poll / aggregate / render / publish cycle of the   *)
(* ABSA server-status bot.                                                  *)
(*                                                                         *)
(*   SpecProbe  get_server_info applied to one descriptor and one endpoint  *)
(*              response, over every response shape.                        *)
(*   Spec       the task loop: on_ready, update_servers with the           *)
(*              concurrent probes of build_embed, the send / edit calls    *)
(*              and deletions of the message by other users.               *)
(***************************************************************************)
EXTENDS Integers, Sequences, FiniteSets, TLC

VARIABLES loop, waiting, active, pc, server_message, live, responses,
          server_infos, snapshot, embed, cyc, probe

vars == <<loop, waiting, active, pc, server_message, live, responses,
          server_infos, snapshot, embed, cyc, probe>>

(***************************************************************************)
(* Bounds.                                                                 *)
(***************************************************************************)
\* How many of the configured servers the model polls.
NumServers == 4
\* Message ids the channel can hand out; ids of messages that are neither
\* live nor held by the bot are reused.
MaxMsgs == 3

(***************************************************************************)
(* Configuration (bot.py lines 17-94).                                     *)
(***************************************************************************)
SERVER_IP == "SERVER_IP"

Server(name, port, category) ==
    [name |-> name, ip |-> SERVER_IP, port |-> port, category |-> category]

SERVERS ==
    << Server("ABSA Drift#1", 8081, "Drift"),
       Server("ABSA Drift#2", 8082, "Drift"),
       Server("ABSA Drift#3", 8083, "Drift"),
       Server("ABSA Drift#4", 8084, "Drift"),
       Server("ABSA Drift#8", 8088, "Drift"),
       Server("ABSA Race#6", 8086, "Touge"),
       Server("ABSA Race#5", 8085, "Track"),
       Server("ABSA GoKart#7", 8087, "Track"),
       Server("ABSA SRP#9", 8089, "Track"),
       Server("ABSA SRP#10", 8090, "Track") >>

\* The servers the model polls: a window of SERVERS, in configuration
\* order, that spans the three categories.
Polled == SubSeq(SERVERS, 4, 3 + NumServers)

Idx == 1..NumServers

CATEGORY_ORDER == <<"Drift", "Touge", "Track">>

Categories == {CATEGORY_ORDER[k] : k \in 1..Len(CATEGORY_ORDER)}

CATEGORY_EMOJIS(category) ==
    CASE category = "Drift" -> "purple"
      [] category = "Touge" -> "orange"
      [] category = "Track" -> "blue"
      [] OTHER -> "folder"

(***************************************************************************)
(* Python / JSON values.  A value carries its type: t is "int", "str",     *)
(* "null" (None), "list" or "missing" (the key is not in the object).  A   *)
(* string is the sequence of its pieces, "/" being a piece of its own.     *)
(***************************************************************************)
JInt(n) == [t |-> "int", n |-> n, s |-> <<>>]
JStr(s) == [t |-> "str", n |-> 0, s |-> s]
JNull == [t |-> "null", n |-> 0, s |-> <<>>]
JList == [t |-> "list", n |-> 0, s |-> <<>>]
Missing == [t |-> "missing", n |-> 0, s |-> <<>>]

RECURSIVE Join(_)
Join(s) == IF s = <<>> THEN "" ELSE Head(s) \o Join(Tail(s))

\* str(v), as an f-string formats it.
PyStr(v) ==
    CASE v.t = "int" -> ToString(v.n)
      [] v.t = "str" -> Join(v.s)
      [] v.t = "null" -> "None"
      [] OTHER -> "[]"

\* dict.get(key, default)
DictGet(data, key, default) ==
    IF data[key].t = "missing" THEN default ELSE data[key]

\* os.path.basename of a string: what follows the last "/".
RECURSIVE Basename(_)
Basename(s) ==
    IF s = <<>> THEN <<>>
    ELSE IF s[Len(s)] = "/" THEN <<>>
    ELSE Append(Basename(SubSeq(s, 1, Len(s) - 1)), s[Len(s)])

(***************************************************************************)
(* get_server_info (bot.py lines 115-143).                                 *)
(*                                                                         *)
(* A response is what the endpoint does with the GET: net is "ok" when an  *)
(* HTTP response arrives within the 2 seconds, status its status code,     *)
(* body.kind whether response.json() yields an object, yields another JSON *)
(* value, or raises.                                                       *)
(***************************************************************************)
Body(kind, clients, maxclients, track) ==
    [kind |-> kind, clients |-> clients, maxclients |-> maxclients, track |-> track]

NoBody == Body("none", Missing, Missing, Missing)

Response(net, status, body) == [net |-> net, status |-> status, body |-> body]

Offline(server) ==
    [name |-> server.name, category |-> server.category, map |-> "Offline",
     players |-> "0/0", num_players |-> JInt(-1),
     ip |-> server.ip, port |-> server.port]

\* The try block raises: session.get (no connection, timeout),
\* response.json() (body is not JSON), data.get (data is no dict),
\* os.path.basename (track is no string).
ProbeRaises(resp) ==
    \/ resp.net # "ok"
    \/ resp.body.kind # "object"
    \/ DictGet(resp.body, "track", JStr(<<"Unknown">>)).t # "str"

get_server_info(server, resp) ==
    IF ProbeRaises(resp) THEN Offline(server)
    ELSE LET num_players == DictGet(resp.body, "clients", JInt(0))
             max_players == DictGet(resp.body, "maxclients", JInt(0))
             track_name == Join(Basename(DictGet(resp.body, "track", JStr(<<"Unknown">>)).s))
         IN [name |-> server.name, category |-> server.category,
             map |-> track_name,
             players |-> PyStr(num_players) \o "/" \o PyStr(max_players),
             num_players |-> num_players,
             ip |-> server.ip, port |-> server.port]

NoInfo ==
    [name |-> "", category |-> "", map |-> "", players |-> "",
     num_players |-> Missing, ip |-> "", port |-> 0]

NoResponse == Response("none", 0, NoBody)

(***************************************************************************)
(* build_embed (bot.py lines 149-204).                                     *)
(***************************************************************************)
\* asyncio.gather hands back the children's results in the order the
\* awaitables were passed, whatever the order they finished in (line 151).
GatherResult(children) == [i \in Idx |-> children[i]]

\* info["num_players"] > 0 raises TypeError unless num_players is a number.
Comparable(info) == info.num_players.t = "int"

CountsNonZero(info) == info.num_players.n # 0

\* if info["num_players"] > 0 (line 160)
Counts(info) == info.num_players.n > 0

GroupPrepend(group, info) == <<info>> \o group

GroupOverwrite(group, info) == <<info>>

\* grouped.setdefault(info["category"], []).append(info) (line 159)
GroupAppend(group, info) == Append(group, info)

EmptySnapshot ==
    [grouped |-> [c \in Categories |-> <<>>],
     category_totals |-> [c \in Categories |-> 0],
     total_players |-> 0,
     error |-> FALSE]

\* One pass of the loop body of lines 158-162; error is the TypeError
\* line 160 raises, which ends build_embed.
GroupStep(acc, info) ==
    IF acc.error THEN acc
    ELSE LET g == [acc.grouped EXCEPT ![info.category] = GroupAppend(@, info)]
         IN IF ~Comparable(info)
            THEN [acc EXCEPT !.grouped = g, !.error = TRUE]
            ELSE IF Counts(info)
            THEN [grouped |-> g,
                  category_totals |->
                      [acc.category_totals EXCEPT ![info.category] = @ + info.num_players.n],
                  total_players |-> acc.total_players + info.num_players.n,
                  error |-> FALSE]
            ELSE [acc EXCEPT !.grouped = g]

RECURSIVE GroupLoop(_, _)
GroupLoop(infos, acc) ==
    IF infos = <<>> THEN acc
    ELSE GroupLoop(Tail(infos), GroupStep(acc, Head(infos)))

\* Lines 154-162.
Aggregate(infos) == GroupLoop(infos, EmptySnapshot)

StatusEmojiPositive(info) == IF info.num_players.n > 0 THEN "green" ELSE "red"

\* "green" if info["num_players"] >= 0 else "red" (line 186)
StatusEmoji(info) == IF info.num_players.n >= 0 THEN "green" ELSE "red"

JoinUrl(info) ==
    "https://acstuff.club/s/q:race/online/join?ip=" \o info.ip
        \o "&httpPort=" \o ToString(info.port)

\* The server field of lines 192-196.
ServerField(info) ==
    [kind |-> "server", status_emoji |-> StatusEmoji(info), name |-> info.name,
     map |-> info.map, players |-> info.players, join_url |-> JoinUrl(info)]

\* Header, one field per server of the category, spacing (lines 174-199).
CategoryFields(snap, category) ==
    LET group == IF category \in DOMAIN snap.grouped
                 THEN snap.grouped[category] ELSE <<>>
        total == IF category \in DOMAIN snap.category_totals
                 THEN snap.category_totals[category] ELSE 0
    IN <<[kind |-> "header", emoji |-> CATEGORY_EMOJIS(category),
          category |-> category, total |-> total]>>
       \o [k \in 1..Len(group) |-> ServerField(group[k])]
       \o <<[kind |-> "spacer"]>>

RECURSIVE RenderFields(_, _)
RenderFields(snap, cats) ==
    IF cats = <<>> THEN <<>>
    ELSE CategoryFields(snap, Head(cats)) \o RenderFields(snap, Tail(cats))

\* The embed of lines 164-204.
Render(snap) ==
    [title |-> "ABSA Official Servers",
     description |-> snap.total_players,
     fields |-> RenderFields(snap, CATEGORY_ORDER)]

NoSnapshot == [EmptySnapshot EXCEPT !.error = TRUE]

NoEmbed == [title |-> "", description |-> 0, fields |-> <<>>]

(***************************************************************************)
(* State.                                                                  *)
(*   loop            the task of update_servers: "idle" before start(),    *)
(*                   "running", or "failed" once an exception ended it     *)
(*   waiting         the loop tasks that wait for their next tick          *)
(*   active          the invocations of update_servers in progress         *)
(*   pc              where update_servers is suspended: "sleep" between    *)
(*                   cycles, "gather" (line 151), "send" (223), "edit"     *)
(*                   (226), "recreate" (229)                               *)
(*   server_message  the global of line 110: None, or a message id         *)
(*   live            the bot's messages that exist in the channel          *)
(*   responses       what each endpoint answered in this cycle             *)
(*   server_infos    the results of the children of gather                 *)
(*   snapshot, embed the locals of build_embed and its return value        *)
(*   cyc             a record of the current (or last) cycle: the handle   *)
(*                   at its start, the channel lookup, the aggregation,    *)
(*                   the calls issued with their results, how it ended,    *)
(*                   the GETs issued to each endpoint, the probes that     *)
(*                   resolved, whether the held message was already        *)
(*                   deleted when it started, whether on_ready fired       *)
(*                   during it                                             *)
(*   probe           the single probe of SpecProbe                         *)
(***************************************************************************)
None == 0

MsgIds == 1..MaxMsgs

NoCycle ==
    [start |-> None, channel |-> "unset", agg |-> "none", calls |-> <<>>,
     end |-> "none", outOfOrder |-> FALSE, gets |-> [i \in Idx |-> 0],
     got |-> {}, deleted |-> FALSE, ready |-> FALSE]

NoProbe == [server |-> 0, resp |-> NoResponse, result |-> NoInfo, called |-> FALSE]

NoResponses == [i \in Idx |-> NoResponse]

NoInfos == [i \in Idx |-> NoInfo]

Init ==
    /\ loop = "idle"
    /\ waiting = 0
    /\ active = 0
    /\ pc = "sleep"
    /\ server_message = None
    /\ live = {}
    /\ responses = NoResponses
    /\ server_infos = NoInfos
    /\ snapshot = NoSnapshot
    /\ embed = NoEmbed
    /\ cyc = NoCycle
    /\ probe = NoProbe

(***************************************************************************)
(* What the endpoints answer within a cycle of Spec: no answer in time,    *)
(* or an object whose clients field is 0, 2, null, a string, or absent.    *)
(* SpecProbe covers the other shapes.                                      *)
(***************************************************************************)
SpaTrack == JStr(<<"content", "/", "tracks", "/", "spa">>)

CycleResponses ==
    {Response("timeout", 0, NoBody)}
    \cup {Response("ok", 200, Body("object", c, JInt(10), SpaTrack)) :
            c \in {JInt(0), JInt(2), JNull, JStr(<<"3">>), Missing}}

(***************************************************************************)
(* The task loop (discord.ext.tasks.Loop, bot.py line 210) and on_ready.   *)
(***************************************************************************)
\* The exceptions Loop retries after (reconnect=True): OSError,
\* aiohttp.ClientError, asyncio.TimeoutError, GatewayNotFound,
\* ConnectionClosed.  Any other exception ends the task.
ValidException(exc) == exc = "ClientError"

DropLocals ==
    /\ responses' = NoResponses
    /\ server_infos' = NoInfos
    /\ snapshot' = NoSnapshot
    /\ embed' = NoEmbed

\* An invocation of update_servers is over; its loop task waits for the
\* next tick when continues, and is gone otherwise.
Finish(continues) ==
    /\ active' = active - 1
    /\ waiting' = IF continues THEN waiting + 1 ELSE waiting

\* update_servers returns.
Return(outcome) ==
    /\ pc' = "sleep"
    /\ cyc' = [cyc EXCEPT !.end = outcome]
    /\ DropLocals
    /\ Finish(TRUE)
    /\ UNCHANGED loop

\* update_servers raises exc, with the calls of the cycle being calls.
Raise(exc, calls, agg) ==
    /\ pc' = "sleep"
    /\ cyc' = [cyc EXCEPT !.end = "error", !.calls = calls, !.agg = agg]
    /\ loop' = IF ValidException(exc) THEN "running" ELSE "failed"
    /\ Finish(ValidException(exc))
    /\ DropLocals

TaskNeverLaunched(l) == FALSE

\* Loop.start() refuses while its task is launched and not completed.
TaskLaunched(l) == l = "running"

\* on_ready (lines 236-239): start() raises RuntimeError while the task is
\* running and starts the loop otherwise; the gateway can fire it again on
\* every reconnect.
on_ready ==
    /\ IF TaskLaunched(loop)
       THEN /\ cyc' = [cyc EXCEPT !.ready = @ \/ active > 0]
            /\ UNCHANGED <<loop, waiting>>
       ELSE /\ loop' = "running"
            /\ waiting' = waiting + 1
            /\ UNCHANGED cyc
    /\ UNCHANGED <<active, pc, server_message, live, responses, server_infos,
                   snapshot, embed, probe>>

(***************************************************************************)
(* update_servers (lines 210-230).                                         *)
(***************************************************************************)
ChannelNeverMissing(channel) == FALSE

\* if channel is None (line 215)
ChannelMissing(channel) == channel = "None"

\* Lines 214-219 and 150-151: the lookup, then the GET of every probe is
\* issued and the cycle waits in gather.  A loop task whose tick comes
\* while another invocation is in progress starts its own beside it.
CycleStart ==
    /\ waiting > 0
    /\ IF active > 0
       THEN /\ active' = active + 1
            /\ waiting' = waiting - 1
            /\ UNCHANGED <<pc, cyc>>
       ELSE \E channel \in {"None", "channel"} :
              LET c == [start |-> server_message,
                        channel |-> IF channel = "None" THEN "none" ELSE "ok",
                        agg |-> "none", calls |-> <<>>, end |-> "running",
                        outOfOrder |-> FALSE, gets |-> [i \in Idx |-> 0],
                        got |-> {},
                        deleted |-> server_message # None /\ server_message \notin live,
                        ready |-> FALSE]
              IN IF ChannelMissing(channel)
                 THEN /\ cyc' = [c EXCEPT !.end = "skipped"]
                      /\ pc' = "sleep"
                      /\ UNCHANGED <<waiting, active>>
                 ELSE /\ cyc' = [c EXCEPT !.gets = [i \in Idx |-> 1]]
                      /\ pc' = "gather"
                      /\ active' = active + 1
                      /\ waiting' = waiting - 1
    /\ UNCHANGED <<loop, server_message, live, responses, server_infos,
                   snapshot, embed, probe>>

RetryOnFailure(resp) == resp.net # "ok"

\* Whether a probe issues its GET again: the except clause of lines
\* 134-143 returns the sentinel, and nothing in the try block loops.
Retry(resp) == FALSE

SettleCancelling(infos, i, info) ==
    [j \in Idx |-> IF j = i THEN info
                   ELSE IF info.num_players = JInt(-1) /\ infos[j] = NoInfo
                   THEN Offline(Polled[j])
                   ELSE infos[j]]

\* The child i of gather gets its result; a probe returns a value and
\* never raises, so gather does nothing to the other children.
Settle(infos, i, info) == [infos EXCEPT ![i] = info]

\* The probe of server i finishes (lines 115-143), in any order.
ProbeReturn(i) ==
    /\ pc = "gather"
    /\ responses[i] = NoResponse
    /\ \E resp \in CycleResponses :
         IF Retry(resp)
         THEN /\ cyc' = [cyc EXCEPT !.gets[i] = @ + 1]
              /\ UNCHANGED <<responses, server_infos>>
         ELSE /\ responses' = [responses EXCEPT ![i] = resp]
              /\ server_infos' = Settle(server_infos, i, get_server_info(Polled[i], resp))
              /\ cyc' = [cyc EXCEPT !.got = @ \cup {i},
                           !.outOfOrder =
                               @ \/ \E j \in Idx : j < i /\ responses[j] = NoResponse]
    /\ UNCHANGED <<loop, waiting, active, pc, server_message, live, snapshot,
                   embed, probe>>

Call(op) == [op |-> op, res |-> "pending", msg |-> None]

AnyResolved(rs) == \E i \in Idx : rs[i] # NoResponse

\* await asyncio.gather(...) resumes once every child is done (line 151).
AllResolved(rs) == \A i \in Idx : rs[i] # NoResponse

\* gather returns once every probe has; lines 153-204, then lines 221-226
\* up to the await of the first call.
GatherReturn ==
    /\ pc = "gather"
    /\ AllResolved(responses)
    /\ LET snap == Aggregate(GatherResult(server_infos))
       IN IF snap.error
          THEN /\ Raise("TypeError", <<>>, "error")
               /\ UNCHANGED <<server_message, live, probe>>
          ELSE /\ snapshot' = snap
               /\ embed' = Render(snap)
               /\ pc' = IF server_message = None THEN "send" ELSE "edit"
               /\ cyc' = [cyc EXCEPT !.agg = "ok",
                            !.calls = <<Call(IF server_message = None
                                             THEN "send" ELSE "edit")>>]
               /\ UNCHANGED <<loop, waiting, active, server_message, live,
                              responses, server_infos, probe>>

\* The id the channel gives the next message.
FreshIds == {m \in MsgIds : m \notin live /\ m # server_message}

NewMessage == CHOOSE m \in FreshIds : \A k \in FreshIds : m <= k

\* What channel.send can answer: the message is created, or 404
\* (NotFound), or another HTTP error (Forbidden, rate limit, 5xx), or the
\* connection fails.
SendResults ==
    (IF FreshIds # {} THEN {"ok"} ELSE {}) \cup {"NotFound", "HTTPException", "ClientError"}

\* What server_message.edit can answer: 404 exactly when the message is
\* gone.
EditResults ==
    (IF server_message \in live THEN {"ok"} ELSE {"NotFound"})
        \cup {"HTTPException", "ClientError"}

Done(calls, res, msg) ==
    [calls EXCEPT ![Len(calls)] = [@ EXCEPT !.res = res, !.msg = msg]]

CaughtNever(res) == FALSE

CaughtAlways(res) == TRUE

CaughtHTTPException(res) == res \in {"NotFound", "HTTPException"}

\* except discord.NotFound (line 228)
Caught(res) == res = "NotFound"

\* Line 229, up to the await of the send.
Recreate(calls) ==
    /\ pc' = "recreate"
    /\ cyc' = [cyc EXCEPT !.calls = Append(calls, Call("send"))]
    /\ UNCHANGED <<loop, waiting, active, server_message, live, responses,
                   server_infos, snapshot, embed>>

\* A send creates the message and the handle is assigned (lines 223, 229).
Created(calls) ==
    /\ live' = live \cup {NewMessage}
    /\ server_message' = NewMessage
    /\ pc' = "sleep"
    /\ cyc' = [cyc EXCEPT !.end = "ok", !.calls = Done(calls, "ok", NewMessage)]
    /\ DropLocals
    /\ Finish(TRUE)
    /\ UNCHANGED loop

\* channel.send of line 223 answers.
SendReturn ==
    /\ pc = "send"
    /\ \E res \in SendResults :
         IF res = "ok" THEN Created(cyc.calls)
         ELSE IF Caught(res)
         THEN Recreate(Done(cyc.calls, res, None))
         ELSE Raise(res, Done(cyc.calls, res, None), cyc.agg)
              /\ UNCHANGED <<server_message, live>>
    /\ UNCHANGED probe

AfterEditResult(handle) == None

\* Line 226 drops what edit returns: the handle stays what it was.
AfterEdit(handle) == handle

\* server_message.edit of line 226 answers.
EditReturn ==
    /\ pc = "edit"
    /\ \E res \in EditResults :
         IF res = "ok"
         THEN /\ pc' = "sleep"
              /\ cyc' = [cyc EXCEPT !.end = "ok",
                           !.calls = Done(cyc.calls, "ok", server_message)]
              /\ server_message' = AfterEdit(server_message)
              /\ DropLocals
              /\ Finish(TRUE)
              /\ UNCHANGED <<loop, live>>
         ELSE IF Caught(res)
         THEN Recreate(Done(cyc.calls, res, None))
         ELSE Raise(res, Done(cyc.calls, res, None), cyc.agg)
              /\ UNCHANGED <<server_message, live>>
    /\ UNCHANGED probe

\* channel.send of line 229 answers; nothing catches what it raises.
RecreateReturn ==
    /\ pc = "recreate"
    /\ \E res \in SendResults :
         IF res = "ok" THEN Created(cyc.calls)
         ELSE Raise(res, Done(cyc.calls, res, None), cyc.agg)
              /\ UNCHANGED <<server_message, live>>
    /\ UNCHANGED probe

\* Somebody deletes the bot's message in the channel.
ExternalDelete ==
    /\ \E m \in live : live' = live \ {m}
    /\ UNCHANGED <<loop, waiting, active, pc, server_message, responses,
                   server_infos, snapshot, embed, cyc, probe>>

Next ==
    \/ on_ready
    \/ CycleStart
    \/ \E i \in Idx : ProbeReturn(i)
    \/ GatherReturn
    \/ SendReturn
    \/ EditReturn
    \/ RecreateReturn
    \/ ExternalDelete

Spec == Init /\ [][Next]_vars

(***************************************************************************)
(* SpecProbe: one call of get_server_info, over every descriptor polled    *)
(* and every response shape.                                               *)
(***************************************************************************)
ClientsValues == {Missing, JNull, JStr(<<"3">>), JInt(-1), JInt(0), JInt(5)}

MaxClientsValues == {Missing, JInt(20)}

TrackValues ==
    {Missing, JNull, SpaTrack, JStr(<<"spa">>), JStr(<<"Offline">>),
     JStr(<<"tracks", "/", "Offline">>), JStr(<<"tracks", "/">>)}

Bodies ==
    {Body("not_json", Missing, Missing, Missing),
     Body("array", Missing, Missing, Missing),
     Body("null", Missing, Missing, Missing)}
    \cup {Body("object", c, m, tr) :
            c \in ClientsValues, m \in MaxClientsValues, tr \in TrackValues}

ProbeResponses ==
    {Response("refused", 0, NoBody), Response("timeout", 0, NoBody)}
    \cup {Response("ok", st, b) : st \in {200, 404, 500}, b \in Bodies}

InitProbe ==
    /\ loop = "idle"
    /\ waiting = 0
    /\ active = 0
    /\ pc = "sleep"
    /\ server_message = None
    /\ live = {}
    /\ responses = NoResponses
    /\ server_infos = NoInfos
    /\ snapshot = NoSnapshot
    /\ embed = NoEmbed
    /\ cyc = NoCycle
    /\ probe \in {[server |-> i, resp |-> r, result |-> NoInfo, called |-> FALSE] :
                    i \in Idx, r \in ProbeResponses}

ProbeCall ==
    /\ ~probe.called
    /\ probe' = [probe EXCEPT !.called = TRUE,
                   !.result = get_server_info(Polled[probe.server], probe.resp)]
    /\ UNCHANGED <<loop, waiting, active, pc, server_message, live, responses,
                   server_infos, snapshot, embed, cyc>>

NextProbe == ProbeCall

SpecProbe == InitProbe /\ [][NextProbe]_vars

(***************************************************************************)
(* Properties.                                                             *)
(***************************************************************************)
\* How many calls of a cycle are sends, or edits.
Count(calls, op) == Cardinality({k \in 1..Len(calls) : calls[k].op = op})

\* C1: in a cycle whose channel resolves and whose aggregation completes,
\* an absent handle means exactly one send and no edit, and a cycle that
\* then succeeds leaves the handle on the new message; an active handle
\* whose edit succeeds means exactly one edit, no send, and the handle
\* unchanged.
SendEditSelection ==
    (cyc.channel = "ok" /\ cyc.agg = "ok") =>
        /\ cyc.start = None =>
             /\ Count(cyc.calls, "send") = 1
             /\ Count(cyc.calls, "edit") = 0
             /\ cyc.end = "ok" =>
                  /\ server_message # None
                  /\ server_message = cyc.calls[1].msg
        /\ (cyc.start # None /\ cyc.calls[1].res = "ok") =>
             /\ Count(cyc.calls, "edit") = 1
             /\ Count(cyc.calls, "send") = 0
             /\ server_message = cyc.start

\* C2: when the handle is active and the edit answers not-found, exactly
\* one send follows in the same cycle, and when that send succeeds the
\* handle is the new message and no longer the deleted one.
RecreateOnNotFound ==
    (/\ cyc.start # None
     /\ Len(cyc.calls) >= 1
     /\ cyc.calls[1].op = "edit"
     /\ cyc.calls[1].res = "NotFound") =>
        /\ Len(cyc.calls) = 2
        /\ cyc.calls[2].op = "send"
        /\ cyc.calls[2].res = "ok" =>
             /\ server_message = cyc.calls[2].msg
             /\ server_message # cyc.start
             /\ server_message # None

RecreatedOnce ==
    /\ cyc.start # None
    /\ Len(cyc.calls) = 2
    /\ cyc.calls[1].op = "edit"
    /\ cyc.calls[1].res = "NotFound"
    /\ cyc.calls[2].res = "ok"

\* C3: at most one message of the bot is live in the channel, and the
\* handle refers to it whenever there is one.
NoDanglingMessage ==
    /\ Cardinality(live) <= 1
    /\ live # {} => server_message \in live

LiveAfterRecreate ==
    /\ cyc.start # None
    /\ cyc.start \notin live
    /\ Len(cyc.calls) = 2
    /\ cyc.calls[1].res = "NotFound"
    /\ live = {server_message}

\* C4: after a cycle that ends with an uncaught error the loop is still
\* running and starts a cycle at the next tick.
SchedulerSurvives ==
    cyc.end = "error" => (loop = "running" /\ pc = "sleep")

\* C5: a cycle whose channel lookup returns None issues no send and no
\* edit, leaves the handle as it was, and leaves the loop running and
\* waiting for the next tick.
UnresolvedChannelSkips ==
    cyc.channel = "none" =>
        /\ cyc.calls = <<>>
        /\ cyc.end = "skipped"
        /\ server_message = cyc.start
        /\ loop = "running"
        /\ pc = "sleep"

SkippedWithActiveHandle ==
    /\ cyc.channel = "none"
    /\ cyc.end = "skipped"
    /\ cyc.start # None
    /\ server_message = cyc.start

\* C6: the probe returns either a status with playerCount >= 0 and a map
\* other than "Offline", or exactly the Offline sentinel; and playerCount
\* is -1 if and only if the probe failed.
ProbeResultShape ==
    probe.called =>
        LET r == probe.result
        IN /\ \/ /\ r.num_players.t = "int"
                 /\ r.num_players.n >= 0
                 /\ r.map # "Offline"
              \/ /\ r.num_players = JInt(-1)
                 /\ r.map = "Offline"
                 /\ r.players = "0/0"
           /\ r.num_players = JInt(-1) <=> ProbeRaises(probe.resp)

\* C7: a connection error, a timeout, a non-2xx response, a body that is
\* not JSON and a JSON body that is not an object all yield the Offline
\* sentinel.
FailureModesCollapse ==
    (/\ probe.called
     /\ \/ probe.resp.net # "ok"
        \/ probe.resp.status \notin 200..299
        \/ probe.resp.body.kind # "object") =>
        probe.result = Offline(Polled[probe.server])

\* C8: whatever the endpoints answer, the aggregation completes and raises
\* nothing.
AggregationNeverFails == cyc.agg # "error"

\* What each endpoint answered, as the statuses of one category in
\* configuration order.
ConfigOrder(category) ==
    SelectSeq([i \in Idx |-> get_server_info(Polled[i], responses[i])],
              LAMBDA info : info.category = category)

\* C9: whatever order the probes finish in, every result sits with the
\* descriptor it was fetched for, and the servers of each category group
\* are in configuration order.
OrderPreserved ==
    ~snapshot.error =>
        \A c \in Categories : snapshot.grouped[c] = ConfigOrder(c)

OutOfOrderSnapshot ==
    /\ ~snapshot.error
    /\ cyc.outOfOrder
    /\ Len(snapshot.grouped["Drift"]) >= 2

RECURSIVE SumPositive(_)
SumPositive(group) ==
    IF group = <<>> THEN 0
    ELSE (IF Head(group).num_players.n > 0 THEN Head(group).num_players.n ELSE 0)
         + SumPositive(Tail(group))

RECURSIVE SumTotals(_, _)
SumTotals(totals, cats) ==
    IF cats = <<>> THEN 0
    ELSE totals[Head(cats)] + SumTotals(totals, Tail(cats))

\* C10: each category total is the sum of the positive player counts of
\* the category's members, and the grand total is the sum of the category
\* totals; offline (-1) and empty (0) servers add nothing.
TotalsInvariant ==
    ~snapshot.error =>
        /\ \A c \in Categories :
             snapshot.category_totals[c] = SumPositive(snapshot.grouped[c])
        /\ snapshot.total_players = SumTotals(snapshot.category_totals, CATEGORY_ORDER)

MixedSnapshot ==
    /\ ~snapshot.error
    /\ snapshot.total_players > 0
    /\ \E c \in Categories : \E k \in 1..Len(snapshot.grouped[c]) :
         snapshot.grouped[c][k].num_players.n = -1
    /\ \E c \in Categories : \E k \in 1..Len(snapshot.grouped[c]) :
         snapshot.grouped[c][k].num_players.n = 0

\* C11: at most one invocation of update_servers is in progress, a cycle
\* starts only when none is, and there is never more than one loop task,
\* also when on_ready fires again.
CyclesNeverOverlap ==
    /\ active <= 1
    /\ waiting + active <= 1
    /\ active = 0 <=> pc = "sleep"

ReadyFiredDuringCycle ==
    /\ active = 1
    /\ pc = "recreate"
    /\ cyc.ready

\* The servers of a snapshot.
Members(snap) ==
    Len(snap.grouped["Drift"]) + Len(snap.grouped["Touge"]) + Len(snap.grouped["Track"])

\* C12: grouping, totals, rendering and publishing happen only once every
\* probe of the cycle has resolved; no snapshot holds part of the results.
JoinBeforeMerge ==
    /\ cyc.agg # "none" => cyc.got = Idx
    /\ cyc.calls # <<>> => cyc.got = Idx
    /\ embed # NoEmbed => AllResolved(responses)
    /\ ~snapshot.error =>
         /\ \A i \in Idx : responses[i] # NoResponse
         /\ Members(snapshot) = NumServers

SlowProbeJoined ==
    /\ ~snapshot.error
    /\ cyc.outOfOrder
    /\ responses[NumServers].net = "timeout"
    /\ responses[1].net = "ok"

\* C13: a probe that fails leaves its siblings alone: every probe's result
\* is what its own endpoint answered, and a probe that has not answered
\* is still pending.
ProbeIsolation ==
    \A i \in Idx :
        server_infos[i] = IF responses[i] = NoResponse THEN NoInfo
                          ELSE get_server_info(Polled[i], responses[i])

SiblingsOfFailedProbe ==
    \E i, j, k \in Idx :
        /\ responses[i].net = "timeout"
        /\ server_infos[i] = Offline(Polled[i])
        /\ server_infos[j].num_players = JInt(2)
        /\ responses[k] = NoResponse

\* C14: a cycle that reaches aggregation issues exactly one GET to each
\* endpoint, whatever the endpoint answers.
SingleAttempt ==
    cyc.channel = "ok" => \A i \in Idx : cyc.gets[i] = 1

FailedProbeOneGet ==
    /\ cyc.agg = "ok"
    /\ \E i \in Idx : responses[i].net = "timeout" /\ cyc.gets[i] = 1

\* C15: a server is rendered with the online marker exactly when its
\* player count is >= 0 and with the offline marker otherwise; the totals
\* shown count positive player counts only, so a server with 0 players is
\* online and adds nothing.
StatusMarker ==
    embed # NoEmbed =>
        /\ \A k \in 1..Len(embed.fields) :
             embed.fields[k].kind = "server" =>
                 \E i \in Idx :
                     /\ server_infos[i].name = embed.fields[k].name
                     /\ embed.fields[k].status_emoji =
                            IF server_infos[i].num_players.n >= 0
                            THEN "green" ELSE "red"
        /\ \A k \in 1..Len(embed.fields) :
             embed.fields[k].kind = "header" =>
                 embed.fields[k].total =
                     SumPositive(SelectSeq(server_infos,
                         LAMBDA info : info.category = embed.fields[k].category))
        /\ embed.description = SumPositive(server_infos)

ZeroPlayersOnline ==
    /\ embed # NoEmbed
    /\ embed.description > 0
    /\ \E k \in 1..Len(embed.fields) :
         /\ embed.fields[k].kind = "server"
         /\ embed.fields[k].status_emoji = "green"
         /\ embed.fields[k].players = "0/10"
    /\ \E k \in 1..Len(embed.fields) :
         /\ embed.fields[k].kind = "server"
         /\ embed.fields[k].status_emoji = "red"

\* A step that ends a cycle.
CycleEnds == pc # "sleep" /\ pc' = "sleep"

\* Every send the cycle issued was accepted.
SendsAccepted(calls) ==
    \A k \in 1..Len(calls) : calls[k].op = "send" => calls[k].res = "ok"

Recovered == server_message \in live

OtherEditFailureSurfaces ==
    (/\ cyc.start # None
     /\ cyc.calls # <<>>
     /\ cyc.calls[1].op = "edit"
     /\ cyc.calls[1].res \in {"HTTPException", "ClientError"}) =>
        /\ Len(cyc.calls) = 1
        /\ cyc.end = "error"
        /\ pc = "sleep"
        /\ server_message = cyc.start

EditRefusedOnLiveMessage ==
    /\ cyc.start \in live
    /\ Len(cyc.calls) = 1
    /\ cyc.calls[1].op = "edit"
    /\ cyc.calls[1].res = "HTTPException"
    /\ server_message = cyc.start

\* The groups that hold a server, the places of a server in a group, the
\* fields of the embed that show a server, the header above a field.
GroupsOf(snap, server) ==
    {c \in Categories :
        \E k \in 1..Len(snap.grouped[c]) : snap.grouped[c][k].name = server.name}

PlacesIn(group, server) ==
    {k \in 1..Len(group) : group[k].name = server.name /\ group[k].port = server.port}

EntriesOf(fields, server) ==
    {k \in 1..Len(fields) :
        fields[k].kind = "server" /\ fields[k].name = server.name}

HeaderAbove(fields, k) ==
    LET above == {h \in 1..k : fields[h].kind = "header"}
    IN fields[CHOOSE h \in above : \A g \in above : g <= h].category

HeaderCategories(fields) ==
    LET headers == SelectSeq(fields, LAMBDA f : f.kind = "header")
    IN [k \in 1..Len(headers) |-> headers[k].category]

\* C18: every polled descriptor is in exactly one category group, its own,
\* and the embed has exactly one entry for it, under the header of its
\* category, the headers being in the fixed category order.
PartitionRendered ==
    ~snapshot.error =>
        /\ HeaderCategories(embed.fields) = CATEGORY_ORDER
        /\ \A i \in Idx :
             /\ GroupsOf(snapshot, Polled[i]) = {Polled[i].category}
             /\ Cardinality(PlacesIn(snapshot.grouped[Polled[i].category], Polled[i])) = 1
             /\ Cardinality(EntriesOf(embed.fields, Polled[i])) = 1
             /\ \A k \in EntriesOf(embed.fields, Polled[i]) :
                  HeaderAbove(embed.fields, k) = Polled[i].category

RenderedAllCategories ==
    /\ ~snapshot.error
    /\ Len(embed.fields) = NumServers + 2 * Len(CATEGORY_ORDER)
    /\ Len(snapshot.grouped["Drift"]) >= 2
    /\ Len(snapshot.grouped["Touge"]) >= 1
    /\ Len(snapshot.grouped["Track"]) >= 1

\* C19: the handle is absent at first, never goes back to absent, and
\* changes only in the step in which a send returns successfully, to the
\* message that send created.
HandleMonotonic ==
    /\ server_message = None
    /\ [][/\ server_message # None => server_message' # None
          /\ server_message' # server_message =>
               /\ pc \in {"send", "recreate"}
               /\ pc' = "sleep"
               /\ cyc'.end = "ok"
               /\ cyc'.calls[Len(cyc'.calls)].op = "send"
               /\ cyc'.calls[Len(cyc'.calls)].res = "ok"
               /\ cyc'.calls[Len(cyc'.calls)].msg = server_message'
               /\ server_message' \in live']_vars

HandleKeptAfterFailedRecreate ==
    /\ cyc.start # None
    /\ Len(cyc.calls) = 2
    /\ cyc.calls[2].res \in {"NotFound", "HTTPException", "ClientError"}
    /\ cyc.end = "error"
    /\ server_message = cyc.start

\* C20: a cycle whose channel does not resolve issues no GET; calls to the
\* channel are issued only once aggregation and rendering are done; a
\* cycle issues at most two calls, and the second is a send after the
\* first raised not-found.
StepOrder ==
    /\ cyc.channel = "none" =>
         /\ \A i \in Idx : cyc.gets[i] = 0
         /\ cyc.got = {}
         /\ cyc.calls = <<>>
    /\ cyc.calls # <<>> => (cyc.agg = "ok" /\ cyc.got = Idx)
    /\ pc \in {"send", "edit", "recreate"} =>
         (~snapshot.error /\ embed = Render(snapshot))
    /\ Len(cyc.calls) <= 2
    /\ Len(cyc.calls) = 2 =>
         /\ cyc.calls[2].op = "send"
         /\ cyc.calls[1].res = "NotFound"

SecondCallInFlight ==
    /\ pc = "recreate"
    /\ Len(cyc.calls) = 2
    /\ cyc.calls[2].res = "pending"
    /\ \A i \in Idx : cyc.gets[i] = 1

====
